---- MODULE Spec2Model ----
(***************************************************************************)
(* TransitIQ: vehicle detections are bucketed into four directional lanes  *)
(* and the per-lane counts are written to a serial link.  The repository   *)
(* holds four scripts, each a strategy of its own:                         *)
(*   "processor"  ai_processing/traffic_processor.py  quadrant thresholds, *)
(*                camera loop, text line                                   *)
(*   "markers"    ai_processing/traffic_markers.py    ArUco lane polygons, *)
(*                transfer object                                          *)
(*   "masking"    ai_processing/traffic_masking.py    colour mask lookup,  *)
(*                checksummed binary packet                                *)
(*   "regions"    traffic.py                          corner rectangles    *)
(* plus "packet": TrafficAnalyzerApp.send_serial_data of traffic_masking   *)
(* applied to an arbitrary count record, the link and its receiver.        *)
(* The variable script says which of them a behaviour runs.                *)
(***************************************************************************)
EXTENDS Integers, Sequences, FiniteSets, TLC

VARIABLES
    script,       \* which script this behaviour runs
    pc,           \* position in the script
    frame,        \* [w, h]: size of the image or camera frame
    dets,         \* the detector's output for the current frame (a sequence)
    markers,      \* ids of the ArUco markers detectMarkers found
    tolerance,    \* LaneAnalyzer.tolerance (colour mask)
    lane_counts,  \* the count record of the current frame, NoCounts when none
    capOpen,      \* TrafficProcessor.cap is acquired
    serOpen,      \* the serial connection is open
    err,          \* the error the last step ran into ("none" when it did not)
    signal,       \* what the caller of the send operation got back from it
    wire,         \* the bytes last written to the serial link
    flip,         \* the bit of wire the link flipped (0: none)
    rx,           \* the receiver's verdict on wire
    frames        \* passes of the while loop of TrafficProcessor.run so far

vars == <<script, pc, frame, dets, markers, tolerance, lane_counts,
          capOpen, serOpen, err, signal, wire, flip, rx, frames>>

(***************************************************************************)
(* Bounds of the model.                                                    *)
(***************************************************************************)
\* longest list of detections in one frame
MaxDets == 2

\* passes of the camera loop that are followed
MaxFrames == 2

(***************************************************************************)
(* Values shared by the scripts.                                           *)
(***************************************************************************)
\* dict iteration order of lane_markers / lane_colors / regions / car_counts
LaneOrder == <<"North", "South", "East", "West">>

Lanes == {LaneOrder[i] : i \in 1..Len(LaneOrder)}

\* keys of the record TrafficProcessor.process_frame builds
QuadrantKeys == {"N", "S", "E", "W"}

\* no count record (process_frame's None, or nothing computed yet)
NoCounts == [l \in {} |-> 0]

\* COCO class ids the detector reports here: person (0) and car (2)
Classes == {0, 2}

\* sequences over S of length 0..n
SeqsUpTo(S, n) == UNION {[1..k -> S] : k \in 0..n}

(***************************************************************************)
(* traffic_processor.py: TrafficProcessor                                  *)
(***************************************************************************)
\* the thresholds process_frame compares the box centre against
XThreshold == 320
YThreshold == 240

\* x_center = (box[0] + box[2]) / 2 < 320, without the division:
\* the quadrant key one box increments
QuadrantOf(box) ==
    IF box.x1 + box.x2 < 2 * XThreshold
    THEN (IF box.y1 + box.y2 < 2 * YThreshold THEN "W" ELSE "N")
    ELSE (IF box.y1 + box.y2 < 2 * YThreshold THEN "E" ELSE "S")

\* the loop of process_frame over results.boxes.xyxy: every box is counted,
\* whatever its class
ProcessFrameCounts(boxes) ==
    [k \in QuadrantKeys |->
        Cardinality({i \in 1..Len(boxes) : QuadrantOf(boxes[i]) = k})]

\* str(n) as ASCII codes
RECURSIVE Decimal(_)
Decimal(n) ==
    IF n < 10 THEN <<48 + n>> ELSE Decimal(n \div 10) \o <<48 + (n % 10)>>

\* the counts written in the order N, E, S, W
TextPayloadNESW(counts) ==
    Decimal(counts["N"]) \o <<44>> \o Decimal(counts["E"]) \o <<44>>
        \o Decimal(counts["S"]) \o <<44>> \o Decimal(counts["W"]) \o <<10>>

\* f"{counts['N']},{counts['S']},{counts['E']},{counts['W']}\n".encode('utf-8')
TextPayload(counts) ==
    Decimal(counts["N"]) \o <<44>> \o Decimal(counts["S"]) \o <<44>>
        \o Decimal(counts["E"]) \o <<44>> \o Decimal(counts["W"]) \o <<10>>

\* camera frame sizes
Frames == {[w |-> 640, h |-> 480], [w |-> 1280, h |-> 960]}

\* a box of the detector around centre (cx, cy), as xyxy, with its class
BoxAround(cx, cy, c) ==
    [x1 |-> cx - 10, y1 |-> cy - 10, x2 |-> cx + 10, y2 |-> cy + 10, cls |-> c]

\* the boxes the detector may report in a frame of size f: around the four
\* quarter points of the frame, one per class
FrameBoxes(f) ==
    {BoxAround(qx * (f.w \div 4), qy * (f.h \div 4), c) :
        qx \in {1, 3}, qy \in {1, 3}, c \in Classes}

\* TrafficProcessor(): camera and serial port acquired
InitProcessor ==
    /\ script = "processor"
    /\ pc = "loop"
    /\ frame \in Frames
    /\ dets = <<>>
    /\ markers = {}
    /\ tolerance = 0
    /\ lane_counts = NoCounts
    /\ capOpen = TRUE
    /\ serOpen = TRUE
    /\ err = "none"
    /\ signal = "none"
    /\ wire = <<>>
    /\ flip = 0
    /\ rx = "idle"
    /\ frames = 0

\* one pass of the while loop of run: cap.read() fails, process_frame
\* returns None, nothing is sent
ProcessorReadFails ==
    /\ script = "processor" /\ pc = "loop"
    /\ frames < MaxFrames
    /\ frames' = frames + 1
    /\ dets' = <<>>
    /\ lane_counts' = NoCounts
    /\ err' = "none"
    /\ UNCHANGED <<script, pc, frame, markers, tolerance, capOpen, serOpen,
                   signal, wire, flip, rx>>

\* the pass as it would be if counts were kept on the instance between
\* calls of process_frame instead of being the fresh dict of line 27
ProcessorFrameSentAccumulating ==
    /\ script = "processor" /\ pc = "loop"
    /\ frames < MaxFrames
    /\ frames' = frames + 1
    /\ \E boxes \in SeqsUpTo(FrameBoxes(frame), MaxDets) :
        LET kept == IF lane_counts = NoCounts
                        THEN [k \in QuadrantKeys |-> 0]
                        ELSE lane_counts
            sum == [k \in QuadrantKeys |->
                        kept[k] + ProcessFrameCounts(boxes)[k]]
        IN  /\ dets' = boxes
            /\ lane_counts' = sum
            /\ wire' = TextPayload(sum)
    /\ err' = "none"
    /\ UNCHANGED <<script, pc, frame, markers, tolerance, capOpen, serOpen,
                   signal, flip, rx>>

\* one pass of the while loop of run: process_frame returns the counts (a
\* non-empty dict, so `if counts:` holds) and send_counts writes them
ProcessorFrameSent ==
    /\ script = "processor" /\ pc = "loop"
    /\ frames < MaxFrames
    /\ frames' = frames + 1
    /\ \E boxes \in SeqsUpTo(FrameBoxes(frame), MaxDets) :
        /\ dets' = boxes
        /\ lane_counts' = ProcessFrameCounts(boxes)
        /\ wire' = TextPayload(ProcessFrameCounts(boxes))
    /\ err' = "none"
    /\ UNCHANGED <<script, pc, frame, markers, tolerance, capOpen, serOpen,
                   signal, flip, rx>>

\* one pass of the while loop of run: ser.write raises inside send_counts;
\* run catches KeyboardInterrupt only, so the exception leaves run
ProcessorWriteFails ==
    /\ script = "processor" /\ pc = "loop"
    /\ frames < MaxFrames
    /\ frames' = frames + 1
    /\ \E boxes \in SeqsUpTo(FrameBoxes(frame), MaxDets) :
        /\ dets' = boxes
        /\ lane_counts' = ProcessFrameCounts(boxes)
    /\ err' = "write"
    /\ pc' = "crashed"
    /\ UNCHANGED <<script, frame, markers, tolerance, capOpen, serOpen,
                   signal, wire, flip, rx>>

\* one pass of the while loop of run: cap.read or the model raises inside
\* process_frame; the exception leaves run
ProcessorFrameRaises ==
    /\ script = "processor" /\ pc = "loop"
    /\ frames < MaxFrames
    /\ frames' = frames + 1
    /\ dets' = <<>>
    /\ lane_counts' = NoCounts
    /\ err' = "frame"
    /\ pc' = "crashed"
    /\ UNCHANGED <<script, frame, markers, tolerance, capOpen, serOpen,
                   signal, wire, flip, rx>>

\* the stop signal: KeyboardInterrupt is caught, camera and port released
ProcessorInterrupted ==
    /\ script = "processor" /\ pc = "loop"
    /\ capOpen' = FALSE
    /\ serOpen' = FALSE
    /\ err' = "KeyboardInterrupt"
    /\ pc' = "stopped"
    /\ UNCHANGED <<script, frame, dets, markers, tolerance, lane_counts,
                   signal, wire, flip, rx, frames>>

NextProcessor ==
    \/ ProcessorReadFails
    \/ ProcessorFrameSent
    \/ ProcessorWriteFails
    \/ ProcessorFrameRaises
    \/ ProcessorInterrupted

SpecProcessor == InitProcessor /\ [][NextProcessor]_vars

(***************************************************************************)
(* traffic_markers.py / traffic_masking.py: YOLOModel.detect and the       *)
(* centres TrafficAnalyzerApp.run derives from it (the same code in both)  *)
(***************************************************************************)
\* self.conf_threshold = 0.5 and self.nms_threshold = 0.4, in tenths
conf_threshold == 5
nms_threshold == 4

\* self.classes.index("car") in coco.names
CarClass == 2

\* int(v / 2) of Python: truncation toward zero
TruncHalf(n) == IF n >= 0 THEN n \div 2 ELSE -((-n) \div 2)

\* one row of the network's output after scaling to the image: centre, size,
\* best class, confidence in tenths -> the box [x, y, w, h] detect appends
BoxOf(d) ==
    [x |-> TruncHalf(2 * d.cx - d.w), y |-> TruncHalf(2 * d.cy - d.h),
     w |-> d.w, h |-> d.h]

\* the test of detect: confidence above the threshold and class "car"
IsCar(d) == d.conf > conf_threshold /\ d.cls = CarClass

\* boxes, in the order detect appends them
DetectBoxes(raw) ==
    LET kept == SelectSeq(raw, IsCar)
    IN  [i \in 1..Len(kept) |-> BoxOf(kept[i])]

Max(a, b) == IF a >= b THEN a ELSE b
Min(a, b) == IF a <= b THEN a ELSE b

\* area of the intersection of two boxes
Intersection(a, b) ==
    Max(0, Min(a.x + a.w, b.x + b.w) - Max(a.x, b.x))
        * Max(0, Min(a.y + a.h, b.y + b.h) - Max(a.y, b.y))

\* overlap (intersection over union) above nms_threshold
Suppresses(a, b) ==
    LET inter == Intersection(a, b)
        union == a.w * a.h + b.w * b.h - inter
    IN  union > 0 /\ 10 * inter > nms_threshold * union

\* cv2.dnn.NMSBoxes over boxes of equal confidence: a box is kept unless a
\* box kept before it overlaps it above nms_threshold; the kept indexes
RECURSIVE NMSKeep(_, _, _)
NMSKeep(boxes, i, kept) ==
    IF i > Len(boxes) THEN kept
    ELSE IF \E k \in 1..Len(kept) : Suppresses(boxes[kept[k]], boxes[i])
         THEN NMSKeep(boxes, i + 1, kept)
         ELSE NMSKeep(boxes, i + 1, Append(kept, i))

NMSBoxes(boxes) == NMSKeep(boxes, 1, <<>>)

\* run: centers.append((x + w_box//2, y + h_box//2)) for i in indexes
BoxCentres(raw) ==
    LET boxes == DetectBoxes(raw)
        indexes == NMSBoxes(boxes)
    IN  [k \in 1..Len(indexes) |->
            [x |-> boxes[indexes[k]].x + (boxes[indexes[k]].w \div 2),
             y |-> boxes[indexes[k]].y + (boxes[indexes[k]].h \div 2)]]

(***************************************************************************)
(* traffic_markers.py: LaneAnalyzer (lane polygons from ArUco markers)     *)
(***************************************************************************)
\* self.lane_markers
lane_markers ==
    [North |-> <<0, 1, 2, 3>>, South |-> <<4, 5, 6, 7>>,
     East |-> <<8, 9, 10, 11>>, West |-> <<12, 13, 14, 15>>]

\* where the markers of the test image sit: the corner nearest the origin of
\* each marker.  North spans (10,10)-(50,50) and South (30,30)-(70,70), which
\* overlap; East and West are apart from both.
MarkerOrigin ==
    <<  <<8, 8>>,   <<48, 8>>,  <<48, 48>>, <<8, 48>>,
        <<28, 28>>, <<68, 28>>, <<68, 68>>, <<28, 68>>,
        <<78, 8>>,  <<93, 8>>,  <<93, 23>>, <<78, 23>>,
        <<8, 78>>,  <<23, 78>>, <<23, 93>>, <<8, 93>>  >>

\* corners[idx][0]: the four corners of marker id, a square of side 5
MarkerCorners(id) ==
    LET o == MarkerOrigin[id + 1]
    IN  << <<o[1], o[2]>>, <<o[1] + 5, o[2]>>,
           <<o[1] + 5, o[2] + 5>>, <<o[1], o[2] + 5>> >>

\* np.mean(marker_corners, axis=0), then np.array(..., np.int32): the mean of
\* the corners with its fraction cut off
MarkerCentre(id) ==
    LET c == MarkerCorners(id)
    IN  [x |-> (c[1][1] + c[2][1] + c[3][1] + c[4][1]) \div 4,
         y |-> (c[1][2] + c[2][2] + c[3][2] + c[4][2]) \div 4]

\* lane_corners of one lane: the centres of its detected markers, in the
\* order of lane_markers
LaneCorners(lane, ids) ==
    LET found == SelectSeq(lane_markers[lane], LAMBDA m : m \in ids)
    IN  [i \in 1..Len(found) |-> MarkerCentre(found[i])]

\* create_lane_polygons as it would be if a lane needed all four of its
\* markers
CreateLanePolygonsFourCorners(ids) ==
    [lane \in {l \in Lanes : Len(LaneCorners(l, ids)) >= 4} |->
        LaneCorners(lane, ids)]

\* create_lane_polygons: a lane has a polygon when at least 3 of its markers
\* were found
CreateLanePolygons(ids) ==
    [lane \in {l \in Lanes : Len(LaneCorners(l, ids)) >= 3} |->
        LaneCorners(lane, ids)]

\* cv2.pointPolygonTest(polygon, point, False) for integer coordinates:
\* 0 on an edge or vertex, else +1 inside and -1 outside by the parity of
\* the edges a ray from the point crosses
RECURSIVE PointPolygonScan(_, _, _, _)
PointPolygonScan(cnt, ip, i, counter) ==
    IF i > Len(cnt) THEN (IF counter % 2 = 0 THEN -1 ELSE 1)
    ELSE
        LET v0 == cnt[IF i = 1 THEN Len(cnt) ELSE i - 1]
            v == cnt[i]
            dist == (ip.y - v0.y) * (v.x - v0.x) - (ip.x - v0.x) * (v.y - v0.y)
        IN  IF \/ (v0.y <= ip.y /\ v.y <= ip.y)
               \/ (v0.y > ip.y /\ v.y > ip.y)
               \/ (v0.x < ip.x /\ v.x < ip.x)
            THEN IF /\ ip.y = v.y
                    /\ \/ ip.x = v.x
                       \/ /\ ip.y = v0.y
                          /\ \/ (v0.x <= ip.x /\ ip.x <= v.x)
                             \/ (v.x <= ip.x /\ ip.x <= v0.x)
                 THEN 0
                 ELSE PointPolygonScan(cnt, ip, i + 1, counter)
            ELSE IF dist = 0 THEN 0
                 ELSE PointPolygonScan(cnt, ip, i + 1,
                        counter + (IF (IF v.y < v0.y THEN -dist ELSE dist) > 0
                                   THEN 1 ELSE 0))

PointPolygonTest(polygon, point) == PointPolygonScan(polygon, point, 1, 0)

\* the lanes one centre increments: every lane whose polygon holds it (the
\* inner loop of count_cars has no break)
LanesHit(point, polygons) ==
    {lane \in DOMAIN polygons : PointPolygonTest(polygons[lane], point) >= 0}

\* lane_counts = {lane: 0 for lane in lane_polygons}: entries only for the
\* lanes that have a polygon
PolygonCountCarsPolygonLanes(centers, ids) ==
    LET polygons == CreateLanePolygons(ids)
    IN  [lane \in DOMAIN polygons |->
            Cardinality({i \in 1..Len(centers) :
                            lane \in LanesHit(centers[i], polygons)})]

\* LaneAnalyzer.count_cars after detect_markers returned: lane_counts
PolygonCountCars(centers, ids) ==
    LET polygons == CreateLanePolygons(ids)
    IN  [lane \in Lanes |->
            Cardinality({i \in 1..Len(centers) :
                            lane \in LanesHit(centers[i], polygons)})]

(***************************************************************************)
(* traffic_markers.py: TrafficAnalyzerApp                                  *)
(***************************************************************************)
\* the first k markers of a lane
FirstMarkers(lane, k) == {lane_markers[lane][i] : i \in 1..k}

\* what detectMarkers may find in the image: per lane none, some or all of
\* its four markers
MarkerSets ==
    {FirstMarkers("North", a) \cup FirstMarkers("South", b)
        \cup FirstMarkers("East", c) \cup FirstMarkers("West", d) :
        a \in {0, 2, 3, 4}, b \in {0, 4}, c \in {0, 4}, d \in {0, 4}}

\* a row of the network's output
Row(cx, cy, size, cls, conf) ==
    [cx |-> cx, cy |-> cy, w |-> size, h |-> size, cls |-> cls, conf |-> conf]

\* rows the network may output for the marker image: cars inside one lane
\* (one of them inside North's polygon whether it has three corners or
\* four), inside two, on an edge, outside all; a person; a weak car; a
\* second box on a car already found
MarkerRows ==
    {Row(40, 40, 6, 2, 9), Row(20, 30, 6, 2, 9), Row(60, 60, 6, 2, 9),
     Row(85, 15, 6, 2, 9), Row(15, 85, 6, 2, 9), Row(60, 20, 6, 2, 9),
     Row(10, 30, 6, 2, 9), Row(40, 20, 6, 2, 9), Row(40, 40, 6, 0, 9),
     Row(40, 40, 6, 2, 3), Row(40, 40, 7, 2, 9)}

\* the outcomes of the serial link for one send
LinkFaults == {"none", "open", "write"}

InitMarkers ==
    /\ script = "markers"
    /\ pc = "start"
    /\ frame = [w |-> 100, h |-> 100]
    /\ dets \in SeqsUpTo(MarkerRows, MaxDets)
    /\ markers \in MarkerSets
    /\ tolerance = 0
    /\ lane_counts = NoCounts
    /\ capOpen = FALSE
    /\ serOpen = FALSE
    /\ err = "none"
    /\ signal = "none"
    /\ wire = <<>>
    /\ flip = 0
    /\ rx = "idle"
    /\ frames = 0

\* run: cv2.imread returns None, FileNotFoundError leaves run
MarkersImageMissing ==
    /\ script = "markers" /\ pc = "start"
    /\ err' = "FileNotFoundError"
    /\ pc' = "failed"
    /\ UNCHANGED <<script, frame, dets, markers, tolerance, lane_counts,
                   capOpen, serOpen, signal, wire, flip, rx, frames>>

\* run: no box passed detect, NMSBoxes returns an empty tuple and
\* indexes.flatten() raises (an OpenCV build that returns an empty array
\* goes on with no centres instead)
MarkersFlattenRaises ==
    /\ script = "markers" /\ pc = "start"
    /\ DetectBoxes(dets) = <<>>
    /\ err' = "AttributeError"
    /\ pc' = "failed"
    /\ UNCHANGED <<script, frame, dets, markers, tolerance, lane_counts,
                   capOpen, serOpen, signal, wire, flip, rx, frames>>

\* run -> count_cars -> detect_markers: ids is None, ValueError leaves run
MarkersNoMarkers ==
    /\ script = "markers" /\ pc = "start"
    /\ markers = {}
    /\ err' = "ValueError"
    /\ pc' = "failed"
    /\ UNCHANGED <<script, frame, dets, markers, tolerance, lane_counts,
                   capOpen, serOpen, signal, wire, flip, rx, frames>>

\* detect_markers returns (corners, ids) without testing ids: count_cars
\* goes on with no marker at all
MarkersCountCarsUnchecked ==
    /\ script = "markers" /\ pc = "start"
    /\ lane_counts' = PolygonCountCars(BoxCentres(dets), markers)
    /\ pc' = "counted"
    /\ UNCHANGED <<script, frame, dets, markers, tolerance, capOpen, serOpen,
                   err, signal, wire, flip, rx, frames>>

\* run up to the printed breakdown: detect, the centres, count_cars
MarkersCountCars ==
    /\ script = "markers" /\ pc = "start"
    /\ markers # {}
    /\ lane_counts' = PolygonCountCars(BoxCentres(dets), markers)
    /\ pc' = "counted"
    /\ UNCHANGED <<script, frame, dets, markers, tolerance, capOpen, serOpen,
                   err, signal, wire, flip, rx, frames>>

\* the fields of the CarCounts transfer object, in the order they are set
TransferObject(counts) ==
    <<counts["North"], counts["South"], counts["East"], counts["West"]>>

\* send_serial_data: whatever SerialTransfer raises is caught and printed,
\* and the method returns None either way; then _show_detections
MarkersSendSerialData ==
    /\ script = "markers" /\ pc = "counted"
    /\ \E fault \in LinkFaults :
        /\ err' = fault
        /\ wire' = IF fault = "none" THEN TransferObject(lane_counts) ELSE wire
    /\ signal' = "None"
    /\ pc' = "done"
    /\ UNCHANGED <<script, frame, dets, markers, tolerance, lane_counts,
                   capOpen, serOpen, flip, rx, frames>>

NextMarkers ==
    \/ MarkersImageMissing
    \/ MarkersFlattenRaises
    \/ MarkersNoMarkers
    \/ MarkersCountCars
    \/ MarkersSendSerialData

SpecMarkers == InitMarkers /\ [][NextMarkers]_vars

(***************************************************************************)
(* traffic_masking.py: LaneAnalyzer (lane from the colour of a mask pixel) *)
(***************************************************************************)
\* TrafficAnalyzerApp.lane_colors
lane_colors ==
    [North |-> <<255, 0, 0>>, South |-> <<0, 255, 0>>,
     East |-> <<0, 0, 255>>, West |-> <<255, 255, 0>>]

\* the default of LaneAnalyzer's tolerance parameter
DefaultTolerance == 20

\* the mask image, as rows of pixels: the four lane colours, a pixel at
\* distance 20 and one at distance 21 from North's, a pixel as far from
\* North's as from East's, and black
MaskImage ==
    <<  << <<255, 0, 0>>, <<235, 0, 0>>, <<234, 0, 0>>, <<128, 0, 128>> >>,
        << <<0, 255, 0>>, <<0, 0, 255>>, <<255, 255, 0>>, <<0, 0, 0>> >>  >>

\* np.clip(v, lo, hi)
Clip(v, lo, hi) == IF v < lo THEN lo ELSE IF v > hi THEN hi ELSE v

\* np.linalg.norm(mask_color - color) squared: the comparisons of count_cars
\* between distances are made on the squares
Dist2(p, q) ==
    (p[1] - q[1]) * (p[1] - q[1]) + (p[2] - q[2]) * (p[2] - q[2])
        + (p[3] - q[3]) * (p[3] - q[3])

\* dist < self.tolerance
WithinToleranceStrict(d2, tol) == d2 < tol * tol

\* dist <= self.tolerance
WithinTolerance(d2, tol) == d2 <= tol * tol

\* the loop of count_cars over lane_colors.items(): best is best_match ("" for
\* None), min2 the square of min_dist (-1 for infinity)
RECURSIVE BestMatchScan(_, _, _, _, _)
BestMatchScan(mask_color, tol, i, best, min2) ==
    IF i > Len(LaneOrder) THEN best
    ELSE
        LET lane == LaneOrder[i]
            d2 == Dist2(mask_color, lane_colors[lane])
        IN  IF (min2 = -1 \/ d2 < min2) /\ WithinTolerance(d2, tol)
            THEN BestMatchScan(mask_color, tol, i + 1, lane, d2)
            ELSE BestMatchScan(mask_color, tol, i + 1, best, min2)

BestMatch(mask_color, tol) == BestMatchScan(mask_color, tol, 1, "", -1)

\* self.mask[cx, cy]: row and column swapped
MaskColorAtSwapped(c) ==
    LET h == Len(MaskImage)
        w == Len(MaskImage[1])
    IN  MaskImage[Clip(c.x, 0, h - 1) + 1][Clip(c.y, 0, w - 1) + 1]

\* self.mask[cy, cx] after both coordinates are clipped into the mask
MaskColorAt(c) ==
    LET h == Len(MaskImage)
        w == Len(MaskImage[1])
    IN  MaskImage[Clip(c.y, 0, h - 1) + 1][Clip(c.x, 0, w - 1) + 1]

\* LaneAnalyzer.count_cars: lane_counts
ColorCountCars(centers, tol) ==
    [lane \in Lanes |->
        Cardinality({i \in 1..Len(centers) :
                        BestMatch(MaskColorAt(centers[i]), tol) = lane})]

(***************************************************************************)
(* traffic_masking.py: TrafficAnalyzerApp                                  *)
(***************************************************************************)
\* run: the centres of the boxes NMS kept, clipped into the image
MaskCentres(raw, f) ==
    LET c == BoxCentres(raw)
    IN  [k \in 1..Len(c) |->
            [x |-> Clip(c[k].x, 0, f.w - 1), y |-> Clip(c[k].y, 0, f.h - 1)]]

\* rows the network may output for the masked image: a car on each pixel of
\* the mask, one at the right border, a person, a weak car
MaskRows ==
    {Row(x, y, 2, 2, 9) : x \in 0..3, y \in 0..1}
        \cup {Row(4, 0, 2, 2, 9), Row(0, 0, 2, 0, 9), Row(0, 0, 2, 2, 3)}

\* tolerances a LaneAnalyzer is built with
Tolerances == {1, DefaultTolerance, 200, 255}

InitMasking ==
    /\ script = "masking"
    /\ pc = "start"
    /\ frame = [w |-> Len(MaskImage[1]), h |-> Len(MaskImage)]
    /\ dets \in SeqsUpTo(MaskRows, MaxDets)
    /\ markers = {}
    /\ tolerance \in Tolerances
    /\ lane_counts = NoCounts
    /\ capOpen = FALSE
    /\ serOpen = FALSE
    /\ err = "none"
    /\ signal = "none"
    /\ wire = <<>>
    /\ flip = 0
    /\ rx = "idle"
    /\ frames = 0

\* run: cv2.imread returns None for the image or the mask
MaskingImageMissing ==
    /\ script = "masking" /\ pc = "start"
    /\ err' = "FileNotFoundError"
    /\ pc' = "failed"
    /\ UNCHANGED <<script, frame, dets, markers, tolerance, lane_counts,
                   capOpen, serOpen, signal, wire, flip, rx, frames>>

\* run: no box passed detect and indexes.flatten() raises on the empty
\* tuple NMSBoxes returns
MaskingFlattenRaises ==
    /\ script = "masking" /\ pc = "start"
    /\ DetectBoxes(dets) = <<>>
    /\ err' = "AttributeError"
    /\ pc' = "failed"
    /\ UNCHANGED <<script, frame, dets, markers, tolerance, lane_counts,
                   capOpen, serOpen, signal, wire, flip, rx, frames>>

\* run up to the printed breakdown: detect, the centres, count_cars
MaskingCountCars ==
    /\ script = "masking" /\ pc = "start"
    /\ lane_counts' = ColorCountCars(MaskCentres(dets, frame), tolerance)
    /\ pc' = "counted"
    /\ UNCHANGED <<script, frame, dets, markers, tolerance, capOpen, serOpen,
                   err, signal, wire, flip, rx, frames>>

\* start_byte = 0xAA
start_byte == 170

\* a ^ b on non-negative integers
RECURSIVE Xor(_, _)
Xor(a, b) ==
    IF a = 0 /\ b = 0 THEN 0
    ELSE (((a % 2) + (b % 2)) % 2) + 2 * Xor(a \div 2, b \div 2)

\* struct.pack('>4H', ...): the high byte of each count first
Pack4HBigEndian(north, south, east, west) ==
    <<north \div 256, north % 256, south \div 256, south % 256,
      east \div 256, east % 256, west \div 256, west % 256>>

\* struct.pack('<4H', north, south, east, west)
Pack4H(north, south, east, west) ==
    <<north % 256, north \div 256, south % 256, south \div 256,
      east % 256, east \div 256, west % 256, west \div 256>>

\* checksum = start_byte; for byte in data: checksum ^= byte, after the
\* first n bytes of data
RECURSIVE ChecksumAfter(_, _)
ChecksumAfter(data, n) ==
    IF n = 0 THEN start_byte
    ELSE Xor(ChecksumAfter(data, n - 1), data[n])

\* the loop stops one byte short of the end of data
ChecksumWithoutLastByte(data) == ChecksumAfter(data, Len(data) - 1)

\* checksum when the loop is done
Checksum(data) == ChecksumAfter(data, Len(data))

\* packet = bytes([start_byte]) + data + bytes([checksum])
Packet(counts) ==
    LET data == Pack4H(counts["North"], counts["South"],
                       counts["East"], counts["West"])
    IN  <<start_byte>> \o data \o <<Checksum(data)>>

\* send_serial_data: the packet is built and written; an exception of
\* serial.Serial (the port cannot be opened) or of ser.write is caught and
\* printed, and the method returns None either way.  run then shows the
\* detections.
MaskingSendSerialData ==
    /\ script \in {"masking", "packet"} /\ pc = "counted"
    /\ \E fault \in LinkFaults :
        /\ err' = fault
        /\ wire' = IF fault = "none" THEN Packet(lane_counts) ELSE wire
    /\ signal' = "None"
    /\ pc' = "done"
    /\ UNCHANGED <<script, frame, dets, markers, tolerance, lane_counts,
                   capOpen, serOpen, flip, rx, frames>>

NextMasking ==
    \/ MaskingImageMissing
    \/ MaskingFlattenRaises
    \/ MaskingCountCars
    \/ MaskingSendSerialData

SpecMasking == InitMasking /\ [][NextMasking]_vars

(***************************************************************************)
(* The binary packet on the link and at the receiver                       *)
(***************************************************************************)
\* counts handed to send_serial_data: every record over 0, 0x0102 and
\* 0xFFFF, and the record (1, 2, 3, 4)
PacketCounts ==
    [Lanes -> {0, 258, 65535}]
        \cup {[North |-> 1, South |-> 2, East |-> 3, West |-> 4]}

InitPacket ==
    /\ script = "packet"
    /\ pc = "counted"
    /\ frame = [w |-> 0, h |-> 0]
    /\ dets = <<>>
    /\ markers = {}
    /\ tolerance = 0
    /\ lane_counts \in PacketCounts
    /\ capOpen = FALSE
    /\ serOpen = FALSE
    /\ err = "none"
    /\ signal = "none"
    /\ wire = <<>>
    /\ flip = 0
    /\ rx = "idle"
    /\ frames = 0

\* 2^n
RECURSIVE Pow2(_)
Pow2(n) == IF n = 0 THEN 1 ELSE 2 * Pow2(n - 1)

\* bytes with bit k (1 .. 8 * Len(bytes)) inverted
FlipBit(bytes, k) ==
    [bytes EXCEPT ![((k - 1) \div 8) + 1] = Xor(@, Pow2((k - 1) % 8))]

\* the link inverts one bit of the packet in flight
LinkFlipsBit ==
    /\ script = "packet" /\ pc = "done" /\ err = "none"
    /\ flip = 0 /\ rx = "idle"
    /\ \E k \in 1..(8 * Len(wire)) :
        /\ wire' = FlipBit(wire, k)
        /\ flip' = k
    /\ UNCHANGED <<script, pc, frame, dets, markers, tolerance, lane_counts,
                   capOpen, serOpen, err, signal, rx, frames>>

\* the receiver's test of a packet: its length, the start byte, and the
\* last byte against the checksum of the eight count bytes, computed as
\* the sender computes it
ReceiverAccepts(packet) ==
    /\ Len(packet) = 10
    /\ packet[1] = start_byte
    /\ packet[10] = Checksum(SubSeq(packet, 2, 9))

\* the receiver validates what arrived
ReceiverValidates ==
    /\ script = "packet" /\ pc = "done" /\ err = "none"
    /\ rx = "idle"
    /\ frames = 0
    /\ rx' = IF ReceiverAccepts(wire) THEN "accepted" ELSE "rejected"
    /\ UNCHANGED <<script, pc, frame, dets, markers, tolerance, lane_counts,
                   capOpen, serOpen, err, signal, wire, flip, frames>>

NextPacket ==
    \/ MaskingSendSerialData
    \/ LinkFlipsBit
    \/ ReceiverValidates

SpecPacket == InitPacket /\ [][NextPacket]_vars

(***************************************************************************)
(* traffic.py: count_cars_in_regions                                       *)
(***************************************************************************)
\* regions: the four corner rectangles of an image of size f
Regions(f) ==
    [North |-> [x1 |-> f.w - (f.w \div 4), y1 |-> 0,
                x2 |-> f.w, y2 |-> f.h \div 4],
     South |-> [x1 |-> 0, y1 |-> f.h - (f.h \div 4),
                x2 |-> f.w \div 4, y2 |-> f.h],
     East  |-> [x1 |-> f.w - (f.w \div 4), y1 |-> f.h - (f.h \div 4),
                x2 |-> f.w, y2 |-> f.h],
     West  |-> [x1 |-> 0, y1 |-> 0,
                x2 |-> f.w \div 4, y2 |-> f.h \div 4]]

\* cls in [2, 3, 5, 7]: car, motorcycle, bus, truck
VehicleClasses == {2, 3, 5, 7}

\* the test of the inner loop for one detection and one region
InRegion(box, r) ==
    LET center_x == (box.x1 + box.x2) \div 2
        center_y == (box.y1 + box.y2) \div 2
    IN  /\ r.x1 <= center_x /\ center_x <= r.x2
        /\ r.y1 <= center_y /\ center_y <= r.y2
        /\ box.cls \in VehicleClasses

\* car_counts after the loop over results.boxes.data
RegionCountCars(boxes, f) ==
    [lane \in Lanes |->
        Cardinality({i \in 1..Len(boxes) : InRegion(boxes[i], Regions(f)[lane])})]

\* the boxes the detector may report for an image of size f: around the
\* quarter points, in the middle of the West region and in the middle of
\* the image
RegionBoxes(f) ==
    FrameBoxes(f)
        \cup {BoxAround(f.w \div 8, f.h \div 8, 2),
              BoxAround(f.w \div 2, f.h \div 2, 2)}

InitRegions ==
    /\ script = "regions"
    /\ pc = "start"
    /\ frame \in Frames
    /\ dets \in SeqsUpTo(RegionBoxes(frame), MaxDets)
    /\ markers = {}
    /\ tolerance = 0
    /\ lane_counts = NoCounts
    /\ capOpen = FALSE
    /\ serOpen = FALSE
    /\ err = "none"
    /\ signal = "none"
    /\ wire = <<>>
    /\ flip = 0
    /\ rx = "idle"
    /\ frames = 0

\* cv2.imread returns None: FileNotFoundError, which main prints
RegionsImageMissing ==
    /\ script = "regions" /\ pc = "start"
    /\ err' = "FileNotFoundError"
    /\ pc' = "failed"
    /\ UNCHANGED <<script, frame, dets, markers, tolerance, lane_counts,
                   capOpen, serOpen, signal, wire, flip, rx, frames>>

\* count_cars_in_regions returns car_counts
RegionsCountCars ==
    /\ script = "regions" /\ pc = "start"
    /\ lane_counts' = RegionCountCars(dets, frame)
    /\ pc' = "done"
    /\ UNCHANGED <<script, frame, dets, markers, tolerance, capOpen, serOpen,
                   err, signal, wire, flip, rx, frames>>

NextRegions ==
    \/ RegionsImageMissing
    \/ RegionsCountCars

SpecRegions == InitRegions /\ [][NextRegions]_vars

(***************************************************************************)
(* traffic_processor.py: send_counts applied to an arbitrary count record  *)
(***************************************************************************)
\* counts handed to send_counts: one digit, several digits, a zero inside
TextCounts == [QuadrantKeys -> {0, 9, 10, 1205}]

InitText ==
    /\ script = "text"
    /\ pc = "counted"
    /\ frame = [w |-> 0, h |-> 0]
    /\ dets = <<>>
    /\ markers = {}
    /\ tolerance = 0
    /\ lane_counts \in TextCounts
    /\ capOpen = TRUE
    /\ serOpen = TRUE
    /\ err = "none"
    /\ signal = "none"
    /\ wire = <<>>
    /\ flip = 0
    /\ rx = "idle"
    /\ frames = 0

\* send_counts: the line is formatted, encoded and written
TextSendCounts ==
    /\ script = "text" /\ pc = "counted"
    /\ wire' = TextPayload(lane_counts)
    /\ signal' = "None"
    /\ pc' = "done"
    /\ UNCHANGED <<script, frame, dets, markers, tolerance, lane_counts,
                   capOpen, serOpen, err, flip, rx, frames>>

\* send_counts: ser.write raises, and the exception reaches the caller
TextWriteFails ==
    /\ script = "text" /\ pc = "counted"
    /\ err' = "write"
    /\ signal' = "raised"
    /\ pc' = "done"
    /\ UNCHANGED <<script, frame, dets, markers, tolerance, lane_counts,
                   capOpen, serOpen, wire, flip, rx, frames>>

NextText ==
    \/ TextSendCounts
    \/ TextWriteFails

SpecText == InitText /\ [][NextText]_vars

(***************************************************************************)
(* All scripts                                                             *)
(***************************************************************************)
Init ==
    \/ InitProcessor
    \/ InitMarkers
    \/ InitMasking
    \/ InitPacket
    \/ InitRegions
    \/ InitText

Next ==
    \/ NextProcessor
    \/ NextMarkers
    \/ NextMasking
    \/ NextPacket
    \/ NextRegions
    \/ NextText

Spec == Init /\ [][Next]_vars

(***************************************************************************)
(* Properties                                                              *)
(***************************************************************************)
\* the sum of the four entries of a count record over Lanes
Total(counts) ==
    counts["North"] + counts["South"] + counts["East"] + counts["West"]

\* the centres the marker script hands to count_cars
MarkerCentres == BoxCentres(dets)

\* C1: in the polygon strategy a centroid increments at most one lane's
\* count, the first lane in the order North, South, East, West whose polygon
\* holds it, so the four counts never sum to more than the number of
\* centroids.
C1_OneLanePerCentroid ==
    (script = "markers" /\ pc \in {"counted", "done"}) =>
        LET polygons == CreateLanePolygons(markers)
            first(c) == {i \in 1..Len(LaneOrder) :
                            /\ LaneOrder[i] \in LanesHit(c, polygons)
                            /\ \A j \in 1..(i - 1) :
                                  LaneOrder[j] \notin LanesHit(c, polygons)}
        IN  /\ Total(lane_counts) <= Len(MarkerCentres)
            /\ \A i \in 1..Len(LaneOrder) :
                  lane_counts[LaneOrder[i]] =
                      Cardinality({k \in 1..Len(MarkerCentres) :
                                      i \in first(MarkerCentres[k])})

\* C2: in TrafficProcessor.run a serial write failure raised by send_counts
\* does not end the frame loop: after it the loop is still running and goes
\* on to the next frame.
C2_WriteFailureKeepsLooping ==
    (script = "processor" /\ err = "write") => pc = "loop"

\* C3: a failure to open the serial port or to write to it reaches the
\* caller of send_serial_data as a failure signal: after the call returned,
\* what the caller got back differs from the None of a successful send.
C3_SendFailureSurfaces ==
    (script \in {"markers", "masking"} /\ pc = "done"
        /\ err \in {"open", "write"}) => signal # "None"

\* C4: whenever the loop of TrafficProcessor.run has exited, by the stop
\* signal or by an error, the camera and the serial connection are released.
C4_ReleasedOnExit ==
    (script = "processor" /\ pc \in {"stopped", "crashed"}) =>
        (~capOpen /\ ~serOpen)

\* C5: for every strategy (polygon, colour mask, quadrant) and every list of
\* detections, the count record returned has an entry for each of the four
\* lanes and every entry is an integer >= 0.
C5_FourLanesNonNegative ==
    /\ (script \in {"markers", "masking"} /\ pc \in {"counted", "done"}) =>
          /\ DOMAIN lane_counts = Lanes
          /\ \A lane \in Lanes : lane_counts[lane] \in Nat
    /\ (script = "processor" /\ lane_counts # NoCounts) =>
          /\ DOMAIN lane_counts = QuadrantKeys
          /\ \A k \in QuadrantKeys : lane_counts[k] \in Nat

\* C5's case: count_cars returned for an empty list of centres in a frame
\* where some lane has no polygon
C5_Witness ==
    /\ script = "markers" /\ pc = "counted"
    /\ MarkerCentres = <<>>
    /\ DOMAIN CreateLanePolygons(markers) # Lanes
    /\ lane_counts = [lane \in Lanes |-> 0]

\* C6: for counts in 0..65535 the packet of send_serial_data is 10 bytes:
\* 0xAA, then north, south, east, west as 16-bit little-endian values, then
\* the XOR of the nine bytes before it; counts (1,2,3,4) give
\* AA 01 00 02 00 03 00 04 00 AE.
C6_PacketLayout ==
    (script = "packet" /\ pc = "done" /\ err = "none" /\ flip = 0) =>
        LET bit(n, b) == (n \div Pow2(b)) % 2
            ones(b) == Cardinality({i \in 1..9 : bit(wire[i], b) = 1})
        IN  /\ Len(wire) = 10
            /\ \A i \in 1..10 : wire[i] \in 0..255
            /\ wire[1] = 170
            /\ wire[2] + 256 * wire[3] = lane_counts["North"]
            /\ wire[4] + 256 * wire[5] = lane_counts["South"]
            /\ wire[6] + 256 * wire[7] = lane_counts["East"]
            /\ wire[8] + 256 * wire[9] = lane_counts["West"]
            /\ \A b \in 0..7 : bit(wire[10], b) = ones(b) % 2
            /\ (lane_counts = [North |-> 1, South |-> 2, East |-> 3, West |-> 4])
                  => wire = <<170, 1, 0, 2, 0, 3, 0, 4, 0, 174>>

\* C6's case: the packet of counts (1,2,3,4) is on the wire
C6_Witness ==
    /\ script = "packet" /\ pc = "done" /\ err = "none" /\ flip = 0
    /\ lane_counts = [North |-> 1, South |-> 2, East |-> 3, West |-> 4]
    /\ wire = <<170, 1, 0, 2, 0, 3, 0, 4, 0, 174>>

\* C7: a packet of the binary format with any single one of its 80 bits
\* flipped is rejected by a receiver that validates the start byte and the
\* XOR checksum.
C7_BitFlipRejected ==
    (script = "packet" /\ flip # 0 /\ rx # "idle") => rx = "rejected"

\* C7's case: the last bit of the last count byte was flipped and the
\* receiver has given its verdict
C7_Witness ==
    /\ script = "packet" /\ flip = 72 /\ rx = "rejected"

\* C8: for a frame of any width W and height H the quadrant strategy counts
\* a vehicle centred at (W/4, H/4) for West and a vehicle centred at
\* (3W/4, 3H/4) for South.
C8_QuarterPoints ==
    (script = "processor" /\ lane_counts # NoCounts) =>
        LET at(qx, qy) ==
                {i \in 1..Len(dets) :
                    /\ dets[i].cls \in VehicleClasses
                    /\ dets[i].x1 + dets[i].x2 = 2 * qx * (frame.w \div 4)
                    /\ dets[i].y1 + dets[i].y2 = 2 * qy * (frame.h \div 4)}
        IN  /\ lane_counts["W"] >= Cardinality(at(1, 1))
            /\ lane_counts["S"] >= Cardinality(at(3, 3))

\* C9: in every strategy only detections of a vehicle class are counted:
\* the count record is the one the same frame gives with every detection
\* of another class taken out.
C9_OnlyVehiclesCounted ==
    LET vehicles == SelectSeq(dets, LAMBDA d : d.cls \in VehicleClasses)
    IN  /\ (script = "processor" /\ lane_counts # NoCounts) =>
              lane_counts = ProcessFrameCounts(vehicles)
        /\ (script = "regions" /\ pc = "done") =>
              lane_counts = RegionCountCars(vehicles, frame)
        /\ (script = "markers" /\ pc \in {"counted", "done"}) =>
              lane_counts = PolygonCountCars(BoxCentres(vehicles), markers)
        /\ (script = "masking" /\ pc \in {"counted", "done"}) =>
              lane_counts =
                  ColorCountCars(MaskCentres(vehicles, frame), tolerance)

\* the lane a mask colour belongs to by the rule of the colour strategy:
\* among the lanes whose colour is near enough (below the tolerance when
\* strict, at most the tolerance otherwise), the one at the least distance,
\* the first of them in the order North, South, East, West; "" when no lane
\* is near enough
NearestLane(mask_color, tol, strict) ==
    LET d2(i) == Dist2(mask_color, lane_colors[LaneOrder[i]])
        near(d) == IF strict THEN d < tol * tol ELSE d <= tol * tol
        ok == {i \in 1..Len(LaneOrder) : near(d2(i))}
    IN  IF ok = {} THEN ""
        ELSE LaneOrder[CHOOSE i \in ok :
                \A j \in ok : d2(i) < d2(j) \/ (d2(i) = d2(j) /\ i <= j)]

\* the centres the masking script hands to count_cars
MaskedCentres == MaskCentres(dets, frame)

\* C10 as stated: a centroid is counted for the lane at the least distance,
\* the first in order among equals, provided the distance is below the
\* tolerance, and for no lane otherwise.
C10_BelowTolerance ==
    (script = "masking" /\ pc \in {"counted", "done"}) =>
        \A lane \in Lanes :
            lane_counts[lane] =
                Cardinality({k \in 1..Len(MaskedCentres) :
                    NearestLane(MaskColorAt(MaskedCentres[k]),
                                tolerance, TRUE) = lane})

\* C10 amended: a centroid is counted for the lane at the least distance,
\* the first in order among equals, provided the distance is at most the
\* tolerance, and for no lane otherwise.
C10_AtMostTolerance ==
    (script = "masking" /\ pc \in {"counted", "done"}) =>
        \A lane \in Lanes :
            lane_counts[lane] =
                Cardinality({k \in 1..Len(MaskedCentres) :
                    NearestLane(MaskColorAt(MaskedCentres[k]),
                                tolerance, FALSE) = lane})

\* C10's case: at tolerance 255 a centre on the black pixel, at distance
\* exactly 255 from the colours of North, South and East alike, is counted
\* for North, the first of them, beside a centre on East's own colour
C10_Witness ==
    /\ script = "masking" /\ pc = "counted"
    /\ tolerance = 255
    /\ Len(MaskedCentres) = 2
    /\ MaskColorAt(MaskedCentres[1]) = <<0, 0, 0>>
    /\ MaskColorAt(MaskedCentres[2]) = <<0, 0, 255>>
    /\ lane_counts = [North |-> 1, South |-> 0, East |-> 1, West |-> 0]

\* C11: in the colour-mask strategy, for every tolerance > 0, a centroid
\* whose mask pixel equals a lane's reference colour is counted for that
\* lane and for no other: every lane's count is at least the number of
\* centres on its colour, and when every centre of the frame sits on some
\* lane's colour each count is exactly that number.
C11_ExactColourCounted ==
    (script = "masking" /\ pc \in {"counted", "done"} /\ tolerance > 0) =>
        LET pixel(k) == MaskImage[MaskedCentres[k].y + 1][MaskedCentres[k].x + 1]
            on(lane) == {k \in 1..Len(MaskedCentres) :
                            pixel(k) = lane_colors[lane]}
        IN  /\ \A lane \in Lanes : lane_counts[lane] >= Cardinality(on(lane))
            /\ (UNION {on(lane) : lane \in Lanes} = 1..Len(MaskedCentres))
                  => \A lane \in Lanes :
                        lane_counts[lane] = Cardinality(on(lane))

\* C11's case: at tolerance 1 one centre on West's colour and one on
\* South's are counted for West and South and for nothing else
C11_Witness ==
    /\ script = "masking" /\ pc = "counted"
    /\ tolerance = 1
    /\ Len(MaskedCentres) = 2
    /\ MaskImage[MaskedCentres[1].y + 1][MaskedCentres[1].x + 1] = lane_colors["West"]
    /\ MaskImage[MaskedCentres[2].y + 1][MaskedCentres[2].x + 1] = lane_colors["South"]
    /\ lane_counts = [North |-> 0, South |-> 1, East |-> 0, West |-> 1]

\* C12: when no fiducial marker is found in the frame the polygon strategy
\* ends in an error, no count record (all-zero or other) is returned, and
\* nothing is sent over the serial link for that frame.
C12_NoMarkersIsAnError ==
    (script = "markers" /\ markers = {}) =>
        /\ pc \in {"start", "failed"}
        /\ pc = "failed" => err \in {"FileNotFoundError", "AttributeError",
                                     "ValueError"}
        /\ lane_counts = NoCounts
        /\ signal = "none"
        /\ wire = <<>>

\* C12's case: a frame with cars but no marker, count_cars has raised
\* ValueError and run has ended
C12_Witness ==
    /\ script = "markers" /\ markers = {}
    /\ MarkerCentres # <<>>
    /\ pc = "failed" /\ err = "ValueError"
    /\ lane_counts = NoCounts /\ wire = <<>>

\* the number a sequence of ASCII digits reads as
RECURSIVE DigitsValue(_)
DigitsValue(ds) ==
    IF ds = <<>> THEN 0
    ELSE 10 * DigitsValue(SubSeq(ds, 1, Len(ds) - 1)) + (ds[Len(ds)] - 48)

\* ds is the decimal representation of n: digits only, at least one, no
\* leading zero unless it is "0", reading as n
IsDecimalOf(ds, n) ==
    /\ Len(ds) >= 1
    /\ \A i \in 1..Len(ds) : ds[i] \in 48..57
    /\ (Len(ds) = 1 \/ ds[1] # 48)
    /\ DigitsValue(ds) = n

\* C13: for all non-negative counts send_counts writes the ASCII decimal
\* representations of n, s, e, w in that order, joined by single commas and
\* ended by one newline; counts (0,0,0,0) give "0,0,0,0\n".
C13_TextLine ==
    (script = "text" /\ pc = "done" /\ err = "none") =>
        LET commas == {i \in 1..Len(wire) : wire[i] = 44}
            p1 == CHOOSE i \in commas : \A j \in commas : i <= j
            p3 == CHOOSE i \in commas : \A j \in commas : i >= j
            p2 == CHOOSE i \in commas : i # p1 /\ i # p3
        IN  /\ Cardinality(commas) = 3
            /\ {i \in 1..Len(wire) : wire[i] = 10} = {Len(wire)}
            /\ IsDecimalOf(SubSeq(wire, 1, p1 - 1), lane_counts["N"])
            /\ IsDecimalOf(SubSeq(wire, p1 + 1, p2 - 1), lane_counts["S"])
            /\ IsDecimalOf(SubSeq(wire, p2 + 1, p3 - 1), lane_counts["E"])
            /\ IsDecimalOf(SubSeq(wire, p3 + 1, Len(wire) - 1), lane_counts["W"])
            /\ (lane_counts = [k \in QuadrantKeys |-> 0])
                  => wire = <<48, 44, 48, 44, 48, 44, 48, 10>>

\* C13's case: counts N=1205, S=0, E=10, W=9 were written as "1205,0,10,9\n"
C13_Witness ==
    /\ script = "text" /\ pc = "done" /\ err = "none"
    /\ lane_counts = [N |-> 1205, S |-> 0, E |-> 10, W |-> 9]
    /\ wire = <<49, 50, 48, 53, 44, 48, 44, 49, 48, 44, 57, 10>>

\* the cars of one record of process_frame, all four quadrants together
QuadrantTotal(counts) ==
    counts["N"] + counts["S"] + counts["E"] + counts["W"]

\* C14: count aggregation keeps no state between calls. Every count record
\* starts from zero, so the record of a frame never holds more than the
\* frame's detections (process_frame: exactly as many as the frame's boxes;
\* the colour count_cars: at most as many as the frame's centres), and when
\* the loop of run counts two frames in a row with the same detection list
\* the second record is identical to the first.
C14_NoStateBetweenCalls ==
    /\ [](script = "processor" /\ lane_counts # NoCounts
            => QuadrantTotal(lane_counts) = Len(dets))
    /\ [](script = "masking" /\ pc \in {"counted", "done"}
            => Total(lane_counts) <= Len(MaskedCentres))
    /\ [][(script = "processor" /\ lane_counts # NoCounts
                /\ lane_counts' # NoCounts /\ dets' = dets)
            => lane_counts' = lane_counts]_vars

\* a second pass of the loop has counted a frame of two detections
C14_Witness ==
    /\ script = "processor" /\ frames = MaxFrames /\ pc = "loop"
    /\ Len(dets) = 2
    /\ lane_counts # NoCounts
    /\ QuadrantTotal(lane_counts) = 2

\* which side of the line from a to b the point p lies on: positive on one
\* side, negative on the other, 0 on the line
Cross(a, b, p) == (b.x - a.x) * (p.y - a.y) - (b.y - a.y) * (p.x - a.x)

\* the sides of p against every edge of a convex polygon
EdgeSides(poly, p) ==
    {Cross(poly[i], poly[(i % Len(poly)) + 1], p) : i \in 1..Len(poly)}

\* p is on the same side of every edge
StrictlyInside(poly, p) ==
    (\A c \in EdgeSides(poly, p) : c > 0) \/ (\A c \in EdgeSides(poly, p) : c < 0)

\* p is on the far side of some edge
StrictlyOutside(poly, p) ==
    (\E c \in EdgeSides(poly, p) : c > 0) /\ (\E c \in EdgeSides(poly, p) : c < 0)

\* the markers of a lane that were found in the image
Resolved(lane) == {lane_markers[lane][i] : i \in 1..4} \cap markers

\* C15: once the marker script has counted, a lane with fewer than three
\* resolved marker centres has count 0; a lane with three or more counts
\* every centre strictly inside the polygon of its marker centres and no
\* centre strictly outside it, so a centre strictly outside every polygon
\* adds to no count.
C15_PolygonAssignment ==
    (script = "markers" /\ pc \in {"counted", "done"}) =>
        \A lane \in Lanes :
            IF Cardinality(Resolved(lane)) < 3
            THEN lane_counts[lane] = 0
            ELSE LET poly == LaneCorners(lane, markers)
                     inside == {k \in 1..Len(MarkerCentres) :
                                  StrictlyInside(poly, MarkerCentres[k])}
                     outside == {k \in 1..Len(MarkerCentres) :
                                  StrictlyOutside(poly, MarkerCentres[k])}
                 IN  /\ lane_counts[lane] >= Cardinality(inside)
                     /\ lane_counts[lane]
                            <= Len(MarkerCentres) - Cardinality(outside)

\* North has three of its markers and the others none: the car at (40,20)
\* is inside North's triangle and counted, the car at (85,15) is outside it
C15_Witness ==
    /\ script = "markers" /\ pc = "counted"
    /\ markers = FirstMarkers("North", 3)
    /\ MarkerCentres = <<[x |-> 40, y |-> 20], [x |-> 85, y |-> 15]>>
    /\ StrictlyInside(LaneCorners("North", markers), MarkerCentres[1])
    /\ StrictlyOutside(LaneCorners("North", markers), MarkerCentres[2])
    /\ lane_counts = [North |-> 1, South |-> 0, East |-> 0, West |-> 0]

====
